---- MODULE Spec2Model ----
(***************************************************************************)
(* Model of src/modules/proc_module_arch.c: a kernel module that exposes    *)
(* the read-only file /proc/student_info.  The globals of the module, the   *)
(* three module parameters, the clock (jiffies) and, for every reading      *)
(* process, its open file (the cursor *ppos), the arguments of its current  *)
(* proc_read call and the locals of that call are the state.  proc_read is  *)
(* split at its accesses to shared memory (read_count, the parameters), so  *)
(* that calls of different processes and parameter writes interleave as     *)
(* they can on the machine.  Spec: two processes read concurrently, clock   *)
(* and parameters held fixed.  SpecSeq: one process reads, session after    *)
(* session, while the clock runs and the parameters are written.  SpecCfg:  *)
(* one process reads while the parameters are written more often, the       *)
(* clock held.                                                              *)
(***************************************************************************)
EXTENDS Integers, Sequences, FiniteSets, TLC

(* ------------------------------ bounds -------------------------------- *)
\* jiffies is an unsigned long; the model keeps it modulo JiffiesMod
JiffiesMod == 3
\* ticks per second (kernel configuration), scaled to the clock above
HZ == 2
\* proc_read calls per process, over all its open files
MaxCalls == 3
\* requested capacities: one smaller than any report, one larger than any
SmallCount == 64
BigCount == 4096
\* length of the over-long student_name
LongNameLen == 620
\* writes to module parameters (insmod arguments and sysfs writes together)
\* while the clock runs ...
MaxParamSets == 1
\* ... and while it is held
CfgParamSets == 2

(* --------------------------- program constants ------------------------- *)
MAX_SIZE == 1024
PROC_NAME == "student_info"
EFAULT == 14
ENOMEM == 12
\* bytes of the format string of proc_read outside its conversions
FIXED_LEN == 698

\* the reading processes
Procs == {"A", "B"}
Counts == {SmallCount, BigCount}

RECURSIVE Repeat(_, _)
Repeat(s, n) == IF n = 0 THEN ""
                ELSE IF n = 1 THEN s
                ELSE Repeat(s, n \div 2) \o Repeat(s, n - (n \div 2))

LongName == Repeat("x", LongNameLen)
Names == {"Kuharev Kirill", "Petrov Petr", LongName}
Groups == {9, 7}
Subgroups == {2, 1}

VARIABLES
  jiffies,        \* the kernel clock
  proc_file,      \* static struct proc_dir_entry *proc_file
  node,           \* TRUE while /proc/student_info is registered
  init_pc,        \* position of insmod/rmmod
  init_ret,       \* value returned by proc_module_init
  read_count,     \* static int read_count
  load_time,      \* static unsigned long load_time
  load_time_sets, \* number of stores to load_time so far
  student_name, group, subgroup,   \* module parameters
  nsets,          \* number of parameter writes so far
  fresh_calls,    \* number of proc_read calls entered with *ppos = 0 so far
  ticks_since_load, \* clock ticks since the store to load_time, counted up to JiffiesMod
  last_uptime,    \* elapsed-time field shown by the latest report of a closed session
  last_group,     \* group field shown by that report
  session,        \* per process: number of the open file (0: none yet)
  ncalls,         \* per process: proc_read calls made on the open file
  calls,          \* per process: proc_read calls made in all
  delivered,      \* per process: the call of this open file that returned the report (0: none)
  ppos,           \* per process: cursor of the open file
  pc,             \* per process: position inside proc_read
  count,          \* per process: argument count of the current/last call
  tmp,            \* per process: register holding read_count for the increment
  entry_nsets,    \* per process: parameter writes made before the current/last call at offset 0
  uptime_seconds, \* per process: local of proc_read
  buf,            \* per process: the arguments loaded for / rendered into char buf[MAX_SIZE]
  len,            \* per process: int len
  ubuf,           \* per process: the caller's output buffer: bytes written, the report
                  \* in them, and the bytes that were writable at its address
  ret             \* per process: value returned by the last call

gvars == <<jiffies, proc_file, node, init_pc, init_ret, read_count, load_time,
           load_time_sets, ticks_since_load, student_name, group, subgroup, nsets>>
pvars == <<session, ncalls, calls, delivered, ppos, pc, count, tmp, entry_nsets,
           uptime_seconds, buf, len, ubuf, ret>>
vars == <<gvars, fresh_calls, last_uptime, last_group, pvars>>

(* ------------------------------ helpers -------------------------------- *)
\* number of characters %d / %lu print for n
RECURSIVE DecLen(_)
DecLen(n) == IF n < 0 THEN 1 + DecLen(0 - n)
             ELSE IF n < 10 THEN 1 ELSE 1 + DecLen(n \div 10)

NoReport == [name |-> "", group |-> 0, subgroup |-> 0, load_time |-> 0,
             uptime |-> 0, count |-> 0, jiffies |-> 0]

\* the value snprintf returns: the length of the whole text, truncated or not
SnprintfLen(r) == FIXED_LEN + Len(r.name) + DecLen(r.group) + DecLen(r.subgroup)
                  + DecLen(r.load_time) + DecLen(r.uptime) + DecLen(r.count)
                  + DecLen(r.jiffies)

\* bytes of the format string before each of its seven conversions
FieldStart == <<392, 414, 436, 458, 488, 518, 540>>

\* a numeric field of which snprintf stored no or not all digits
Cut == 0 - 1

\* what snprintf leaves in buf: at most size - 1 bytes of the text, so the
\* name up to that limit and the numbers that lie before it
SnprintfBuf(r, size) ==
  LET room == size - 1
      n == Len(r.name)
      Fit(start, v) == IF start + DecLen(v) <= room THEN v ELSE Cut
      s2 == FieldStart[2] + n
      s3 == s2 + DecLen(r.group) + (FieldStart[3] - FieldStart[2])
      s4 == s3 + DecLen(r.subgroup) + (FieldStart[4] - FieldStart[3])
      s5 == s4 + DecLen(r.load_time) + (FieldStart[5] - FieldStart[4])
      s6 == s5 + DecLen(r.uptime) + (FieldStart[6] - FieldStart[5])
      s7 == s6 + DecLen(r.count) + (FieldStart[7] - FieldStart[6])
  IN [name |-> IF FieldStart[1] + n <= room THEN r.name
               ELSE SubSeq(r.name, 1, room - FieldStart[1]),
      group |-> Fit(s2, r.group),
      subgroup |-> Fit(s3, r.subgroup),
      load_time |-> Fit(s4, r.load_time),
      uptime |-> Fit(s5, r.uptime),
      count |-> Fit(s6, r.count),
      jiffies |-> Fit(s7, r.jiffies)]

\* copy_to_user(to, from, n): the number of bytes it could not copy
CopyToUser(n, writable) == IF n <= writable THEN 0 ELSE n - writable

EmptyUbuf == [written |-> 0, report |-> NoReport, writable |-> 0]

(* ------------------------------- Init ---------------------------------- *)
Init ==
  /\ jiffies = 0
  /\ proc_file = "NULL"
  /\ node = FALSE
  /\ init_pc = "insmod"
  /\ init_ret = 0
  /\ read_count = 0
  /\ load_time = 0
  /\ load_time_sets = 0
  /\ student_name = "Kuharev Kirill"
  /\ group = 9
  /\ subgroup = 2
  /\ nsets = 0
  /\ fresh_calls = 0
  /\ ticks_since_load = 0
  /\ last_uptime = 0
  /\ last_group = 0
  /\ session = [p \in Procs |-> 0]
  /\ ncalls = [p \in Procs |-> 0]
  /\ calls = [p \in Procs |-> 0]
  /\ delivered = [p \in Procs |-> 0]
  /\ ppos = [p \in Procs |-> 0]
  /\ pc = [p \in Procs |-> "idle"]
  /\ count = [p \in Procs |-> 0]
  /\ tmp = [p \in Procs |-> 0]
  /\ entry_nsets = [p \in Procs |-> 0]
  /\ uptime_seconds = [p \in Procs |-> 0]
  /\ buf = [p \in Procs |-> NoReport]
  /\ len = [p \in Procs |-> 0]
  /\ ubuf = [p \in Procs |-> EmptyUbuf]
  /\ ret = [p \in Procs |-> 0]

(* ------------------------- clock and parameters ------------------------ *)
Tick ==
  /\ ticks_since_load < JiffiesMod
  /\ jiffies' = (jiffies + 1) % JiffiesMod
  /\ ticks_since_load' = IF load_time_sets > 0 THEN ticks_since_load + 1 ELSE 0
  /\ UNCHANGED <<fresh_calls, last_uptime, last_group, nsets, proc_file, node, init_pc, init_ret,
                 read_count, load_time, load_time_sets, student_name, group, subgroup,
                 pvars>>

\* insmod arguments, then /sys/module/.../parameters (mode 0644)
ParamsSettable == init_pc \in {"insmod", "live"}

set_student_name(v) ==
  /\ ParamsSettable
  /\ v # student_name
  /\ student_name' = v
  /\ nsets' = nsets + 1
  /\ UNCHANGED <<fresh_calls, last_uptime, last_group, jiffies, proc_file, node, init_pc, init_ret, read_count,
                 load_time, load_time_sets, ticks_since_load, group, subgroup, pvars>>

set_group(v) ==
  /\ ParamsSettable
  /\ v # group
  /\ group' = v
  /\ nsets' = nsets + 1
  /\ UNCHANGED <<fresh_calls, last_uptime, last_group, jiffies, proc_file, node, init_pc, init_ret, read_count,
                 load_time, load_time_sets, ticks_since_load, student_name, subgroup, pvars>>

set_subgroup(v) ==
  /\ ParamsSettable
  /\ v # subgroup
  /\ subgroup' = v
  /\ nsets' = nsets + 1
  /\ UNCHANGED <<fresh_calls, last_uptime, last_group, jiffies, proc_file, node, init_pc, init_ret, read_count,
                 load_time, load_time_sets, ticks_since_load, student_name, group, pvars>>

(* --------------------------- module init/exit --------------------------- *)
\* variant: the file is registered first, load_time is not yet stored
proc_module_init_registers_first ==
  /\ init_pc = "insmod"
  /\ proc_file' = PROC_NAME
  /\ node' = TRUE
  /\ init_pc' = "create"
  /\ UNCHANGED <<fresh_calls, last_uptime, last_group, nsets, jiffies, init_ret, read_count, load_time,
                 load_time_sets, ticks_since_load, student_name, group, subgroup, pvars>>

\* proc_module_init up to the call of proc_create
proc_module_init_load_time ==
  /\ init_pc = "insmod"
  /\ load_time' = jiffies
  /\ load_time_sets' = load_time_sets + 1
  /\ ticks_since_load' = 0
  /\ init_pc' = "create"
  /\ UNCHANGED <<fresh_calls, last_uptime, last_group, nsets, jiffies, proc_file, node, init_ret, read_count,
                 student_name, group, subgroup, pvars>>

\* proc_create and the rest of proc_module_init
proc_module_init_create(ok) ==
  /\ init_pc = "create"
  /\ IF ok
       THEN /\ proc_file' = PROC_NAME
            /\ node' = TRUE
            /\ init_ret' = 0
            /\ init_pc' = "live"
       ELSE /\ proc_file' = "NULL"
            /\ node' = FALSE
            /\ init_ret' = 0 - ENOMEM
            /\ init_pc' = "failed"
  /\ UNCHANGED <<fresh_calls, last_uptime, last_group, nsets, jiffies, read_count, load_time, load_time_sets, ticks_since_load,
                 student_name, group, subgroup, pvars>>

\* proc_remove waits for the calls in flight
proc_module_exit ==
  /\ init_pc = "live"
  /\ \A p \in Procs : pc[p] = "idle"
  /\ IF proc_file # "NULL" THEN node' = FALSE ELSE node' = node
  /\ init_pc' = "removed"
  /\ UNCHANGED <<fresh_calls, last_uptime, last_group, nsets, jiffies, proc_file, init_ret, read_count, load_time,
                 load_time_sets, ticks_since_load, student_name, group, subgroup, pvars>>

(* ------------------------------ readers -------------------------------- *)
\* open("/proc/student_info"): a new session, cursor 0
Open(p) ==
  /\ node
  /\ pc[p] = "idle"
  /\ session[p] = 0 \/ ncalls[p] > 0
  /\ calls[p] < MaxCalls
  /\ session' = [session EXCEPT ![p] = @ + 1]
  /\ ncalls' = [ncalls EXCEPT ![p] = 0]
  /\ delivered' = [delivered EXCEPT ![p] = 0]
  /\ ppos' = [ppos EXCEPT ![p] = 0]
  /\ ubuf' = [ubuf EXCEPT ![p] = EmptyUbuf]
  /\ ret' = [ret EXCEPT ![p] = 0]
  /\ len' = [len EXCEPT ![p] = 0]
  /\ tmp' = [tmp EXCEPT ![p] = 0]
  /\ entry_nsets' = [entry_nsets EXCEPT ![p] = 0]
  /\ count' = [count EXCEPT ![p] = 0]
  /\ last_uptime' = IF ubuf[p].report # NoReport /\ ubuf[p].report.uptime # Cut
                      THEN ubuf[p].report.uptime ELSE last_uptime
  /\ last_group' = IF ubuf[p].report # NoReport /\ ubuf[p].report.group # Cut
                     THEN ubuf[p].report.group ELSE last_group
  /\ UNCHANGED <<gvars, fresh_calls, calls, pc, uptime_seconds, buf>>

CanCall(p) ==
  /\ node
  /\ session[p] > 0
  /\ pc[p] = "idle"
  /\ calls[p] < MaxCalls

\* variant: the end-of-stream call counts as a read too
proc_read_eof_counts(p, cnt) ==
  /\ CanCall(p)
  /\ ppos[p] > 0
  /\ ncalls' = [ncalls EXCEPT ![p] = @ + 1]
  /\ calls' = [calls EXCEPT ![p] = @ + 1]
  /\ count' = [count EXCEPT ![p] = cnt]
  /\ read_count' = read_count + 1
  /\ ret' = [ret EXCEPT ![p] = 0]
  /\ UNCHANGED <<fresh_calls, last_uptime, last_group, nsets, jiffies, proc_file, node, init_pc, init_ret,
                 load_time, load_time_sets, ticks_since_load, student_name, group, subgroup,
                 session, delivered, ppos, pc, tmp, entry_nsets, uptime_seconds, buf, len, ubuf>>

\* variant: the end-of-stream call rewinds the cursor
proc_read_eof_rewinds(p, cnt) ==
  /\ CanCall(p)
  /\ ppos[p] > 0
  /\ ncalls' = [ncalls EXCEPT ![p] = @ + 1]
  /\ calls' = [calls EXCEPT ![p] = @ + 1]
  /\ count' = [count EXCEPT ![p] = cnt]
  /\ ppos' = [ppos EXCEPT ![p] = 0]
  /\ ret' = [ret EXCEPT ![p] = 0]
  /\ UNCHANGED <<gvars, fresh_calls, last_uptime, last_group, session, delivered, pc, tmp, entry_nsets, uptime_seconds,
                 buf, len, ubuf>>

\* proc_read, *ppos > 0: return 0
proc_read_eof(p, cnt) ==
  /\ CanCall(p)
  /\ ppos[p] > 0
  /\ ncalls' = [ncalls EXCEPT ![p] = @ + 1]
  /\ calls' = [calls EXCEPT ![p] = @ + 1]
  /\ count' = [count EXCEPT ![p] = cnt]
  /\ ret' = [ret EXCEPT ![p] = 0]
  /\ UNCHANGED <<gvars, fresh_calls, last_uptime, last_group, session, delivered, ppos, pc, tmp, entry_nsets, uptime_seconds,
                 buf, len, ubuf>>

\* proc_read, *ppos = 0: the load of read_count++
proc_read_load(p, cnt) ==
  /\ CanCall(p)
  /\ ~ (ppos[p] > 0)
  /\ ncalls' = [ncalls EXCEPT ![p] = @ + 1]
  /\ calls' = [calls EXCEPT ![p] = @ + 1]
  /\ count' = [count EXCEPT ![p] = cnt]
  /\ tmp' = [tmp EXCEPT ![p] = read_count]
  /\ entry_nsets' = [entry_nsets EXCEPT ![p] = nsets]
  /\ len' = [len EXCEPT ![p] = 0]
  /\ pc' = [pc EXCEPT ![p] = "store"]
  /\ fresh_calls' = fresh_calls + 1
  /\ UNCHANGED <<gvars, last_uptime, last_group, session, delivered, ppos, uptime_seconds, buf, ubuf,
                 ret>>

\* variant: the uptime is taken by a signed subtraction
proc_read_store_signed(p) ==
  /\ pc[p] = "store"
  /\ read_count' = tmp[p] + 1
  /\ uptime_seconds' = [uptime_seconds EXCEPT ![p] = (jiffies - load_time) \div HZ]
  /\ pc' = [pc EXCEPT ![p] = "name"]
  /\ UNCHANGED <<fresh_calls, last_uptime, last_group, nsets, jiffies, proc_file, node, init_pc,
                 init_ret, load_time, load_time_sets, ticks_since_load, student_name,
                 group, subgroup, session, ncalls, calls, delivered, ppos, count, tmp,
                 entry_nsets, buf, len, ubuf, ret>>

\* the store of read_count++, then the uptime
proc_read_store(p) ==
  /\ pc[p] = "store"
  /\ read_count' = tmp[p] + 1
  /\ uptime_seconds' = [uptime_seconds EXCEPT
                          ![p] = ((jiffies - load_time) % JiffiesMod) \div HZ]
  /\ pc' = [pc EXCEPT ![p] = "name"]
  /\ UNCHANGED <<fresh_calls, last_uptime, last_group, nsets, jiffies, proc_file, node, init_pc, init_ret, load_time,
                 load_time_sets, ticks_since_load, student_name, group, subgroup,
                 session, ncalls, calls, delivered, ppos, count, tmp, entry_nsets,
                 buf, len, ubuf, ret>>

\* variant: the name is the initializer of student_name, not its value now
proc_read_arg_name_default(p) ==
  /\ pc[p] = "name"
  /\ buf' = [buf EXCEPT ![p] = [NoReport EXCEPT !.name = "Kuharev Kirill"]]
  /\ pc' = [pc EXCEPT ![p] = "group"]
  /\ UNCHANGED <<gvars, fresh_calls, last_uptime, last_group, session, ncalls, calls,
                 delivered, ppos, count, tmp, entry_nsets, uptime_seconds, len, ubuf, ret>>

\* the arguments of snprintf are loaded one after the other
proc_read_arg_name(p) ==
  /\ pc[p] = "name"
  /\ buf' = [buf EXCEPT ![p] = [NoReport EXCEPT !.name = student_name]]
  /\ pc' = [pc EXCEPT ![p] = "group"]
  /\ UNCHANGED <<gvars, fresh_calls, last_uptime, last_group, session, ncalls, calls, delivered, ppos, count,
                 tmp, entry_nsets, uptime_seconds, len, ubuf, ret>>

\* variant: group is the value an earlier report showed
proc_read_arg_group_cached(p) ==
  /\ pc[p] = "group"
  /\ buf' = [buf EXCEPT ![p].group = IF last_group # 0 THEN last_group ELSE group]
  /\ pc' = [pc EXCEPT ![p] = "snprintf"]
  /\ UNCHANGED <<gvars, fresh_calls, last_uptime, last_group, session, ncalls, calls,
                 delivered, ppos, count, tmp, entry_nsets, uptime_seconds, len, ubuf, ret>>

proc_read_arg_group(p) ==
  /\ pc[p] = "group"
  /\ buf' = [buf EXCEPT ![p].group = group]
  /\ pc' = [pc EXCEPT ![p] = "snprintf"]
  /\ UNCHANGED <<gvars, fresh_calls, last_uptime, last_group, session, ncalls, calls, delivered, ppos, count,
                 tmp, entry_nsets, uptime_seconds, len, ubuf, ret>>

\* variant: the report shows read_count as it was before the increment
proc_read_snprintf_old_count(p, reload) ==
  /\ pc[p] = "snprintf"
  /\ LET r == [buf[p] EXCEPT !.subgroup = subgroup,
                             !.load_time = load_time,
                             !.uptime = uptime_seconds[p],
                             !.count = tmp[p],
                             !.jiffies = jiffies]
     IN /\ buf' = [buf EXCEPT ![p] = SnprintfBuf(r, MAX_SIZE)]
        /\ len' = [len EXCEPT ![p] = SnprintfLen(r)]
  /\ pc' = [pc EXCEPT ![p] = "copy"]
  /\ UNCHANGED <<gvars, fresh_calls, last_uptime, last_group, session, ncalls, calls,
                 delivered, ppos, count, tmp, entry_nsets, uptime_seconds, ubuf, ret>>

\* the remaining arguments and snprintf itself; read_count is either still
\* in the register of the increment or loaded again
proc_read_snprintf(p, reload) ==
  /\ pc[p] = "snprintf"
  /\ LET r == [buf[p] EXCEPT !.subgroup = subgroup,
                             !.load_time = load_time,
                             !.uptime = uptime_seconds[p],
                             !.count = IF reload THEN read_count ELSE tmp[p] + 1,
                             !.jiffies = jiffies]
     IN /\ buf' = [buf EXCEPT ![p] = SnprintfBuf(r, MAX_SIZE)]
        /\ len' = [len EXCEPT ![p] = SnprintfLen(r)]
  /\ pc' = [pc EXCEPT ![p] = "copy"]
  /\ UNCHANGED <<gvars, fresh_calls, last_uptime, last_group, session, ncalls, calls, delivered, ppos, count,
                 tmp, entry_nsets, uptime_seconds, ubuf, ret>>

\* variant: a failed copy takes the increment of read_count back
proc_read_copy_rollback(p, wr) ==
  /\ pc[p] = "copy"
  /\ len[p] <= MAX_SIZE
  /\ IF CopyToUser(len[p], wr) # 0
       THEN /\ ubuf' = [ubuf EXCEPT ![p] = [written |-> wr, report |-> NoReport, writable |-> wr]]
            /\ ret' = [ret EXCEPT ![p] = 0 - EFAULT]
            /\ read_count' = read_count - 1
            /\ UNCHANGED <<ppos, delivered>>
       ELSE /\ ubuf' = [ubuf EXCEPT ![p] = [written |-> len[p], report |-> buf[p], writable |-> wr]]
            /\ ppos' = [ppos EXCEPT ![p] = len[p]]
            /\ ret' = [ret EXCEPT ![p] = len[p]]
            /\ delivered' = [delivered EXCEPT ![p] = ncalls[p]]
            /\ read_count' = read_count
  /\ buf' = [buf EXCEPT ![p] = NoReport]
  /\ uptime_seconds' = [uptime_seconds EXCEPT ![p] = 0]
  /\ pc' = [pc EXCEPT ![p] = "idle"]
  /\ UNCHANGED <<fresh_calls, last_uptime, last_group, nsets, jiffies, proc_file, node, init_pc, init_ret,
                 load_time, load_time_sets, ticks_since_load, student_name, group, subgroup,
                 session, ncalls, calls, count, tmp, entry_nsets, len>>

\* variant: the report is returned but *ppos is left alone
proc_read_copy_no_advance(p, wr) ==
  /\ pc[p] = "copy"
  /\ len[p] <= MAX_SIZE
  /\ IF CopyToUser(len[p], wr) # 0
       THEN /\ ubuf' = [ubuf EXCEPT ![p] = [written |-> wr, report |-> NoReport, writable |-> wr]]
            /\ ret' = [ret EXCEPT ![p] = 0 - EFAULT]
            /\ UNCHANGED <<ppos, delivered>>
       ELSE /\ ubuf' = [ubuf EXCEPT ![p] = [written |-> len[p], report |-> buf[p], writable |-> wr]]
            /\ ret' = [ret EXCEPT ![p] = len[p]]
            /\ UNCHANGED <<ppos, delivered>>
  /\ buf' = [buf EXCEPT ![p] = NoReport]
  /\ uptime_seconds' = [uptime_seconds EXCEPT ![p] = 0]
  /\ pc' = [pc EXCEPT ![p] = "idle"]
  /\ UNCHANGED <<gvars, fresh_calls, last_uptime, last_group, session, ncalls, calls, count, tmp, entry_nsets, len>>

\* copy_to_user(ubuf, buf, len) with len bytes inside buf, and the return
proc_read_copy(p, wr) ==
  /\ pc[p] = "copy"
  /\ len[p] <= MAX_SIZE
  /\ IF CopyToUser(len[p], wr) # 0
       THEN /\ ubuf' = [ubuf EXCEPT ![p] = [written |-> wr, report |-> NoReport, writable |-> wr]]
            /\ ret' = [ret EXCEPT ![p] = 0 - EFAULT]
            /\ UNCHANGED <<ppos, delivered>>
       ELSE /\ ubuf' = [ubuf EXCEPT ![p] = [written |-> len[p], report |-> buf[p], writable |-> wr]]
            /\ ppos' = [ppos EXCEPT ![p] = len[p]]
            /\ ret' = [ret EXCEPT ![p] = len[p]]
            /\ delivered' = [delivered EXCEPT ![p] = ncalls[p]]
  /\ buf' = [buf EXCEPT ![p] = NoReport]
  /\ uptime_seconds' = [uptime_seconds EXCEPT ![p] = 0]
  /\ pc' = [pc EXCEPT ![p] = "idle"]
  /\ UNCHANGED <<gvars, fresh_calls, last_uptime, last_group, session, ncalls, calls, count, tmp, entry_nsets, len>>

\* copy_to_user(ubuf, buf, len) with len > sizeof(buf): the copy reads past
\* the end of buf.  Either the object-size check of copy_to_user refuses it
\* (checked) or the bytes behind buf are copied out too.
proc_read_copy_overlong(p, wr, checked) ==
  /\ pc[p] = "copy"
  /\ len[p] > MAX_SIZE
  /\ IF checked \/ CopyToUser(len[p], wr) # 0
       THEN /\ ubuf' = [ubuf EXCEPT ![p] = [written |-> IF checked THEN 0 ELSE wr,
                                            report |-> NoReport, writable |-> wr]]
            /\ ret' = [ret EXCEPT ![p] = 0 - EFAULT]
            /\ UNCHANGED <<ppos, delivered>>
       ELSE /\ ubuf' = [ubuf EXCEPT ![p] = [written |-> len[p], report |-> buf[p], writable |-> wr]]
            /\ ppos' = [ppos EXCEPT ![p] = len[p]]
            /\ ret' = [ret EXCEPT ![p] = len[p]]
            /\ delivered' = [delivered EXCEPT ![p] = ncalls[p]]
  /\ buf' = [buf EXCEPT ![p] = NoReport]
  /\ uptime_seconds' = [uptime_seconds EXCEPT ![p] = 0]
  /\ pc' = [pc EXCEPT ![p] = "idle"]
  /\ UNCHANGED <<gvars, fresh_calls, last_uptime, last_group, session, ncalls, calls, count, tmp, entry_nsets, len>>

Writables(cnt) == {0, cnt, BigCount}

\* concurrent readers
Next ==
  \/ proc_module_init_load_time
  \/ \E ok \in BOOLEAN : proc_module_init_create(ok)
  \/ proc_module_exit
  \/ \E p \in Procs : Open(p)
  \/ \E p \in Procs, cnt \in Counts : proc_read_eof(p, cnt)
  \/ \E p \in Procs, cnt \in Counts : proc_read_load(p, cnt)
  \/ \E p \in Procs : proc_read_store(p)
  \/ \E p \in Procs : proc_read_arg_name(p)
  \/ \E p \in Procs : proc_read_arg_group(p)
  \/ \E p \in Procs, reload \in BOOLEAN : proc_read_snprintf(p, reload)
  \/ \E p \in Procs : \E wr \in Writables(count[p]) : proc_read_copy(p, wr)

Spec == Init /\ [][Next]_vars

\* a single reader, with the clock and the parameter writes
SeqReader == "A"

NextSeq ==
  \/ Tick
  \/ nsets < MaxParamSets /\ \E v \in Names : set_student_name(v)
  \/ nsets < MaxParamSets /\ \E v \in Groups : set_group(v)
  \/ nsets < MaxParamSets /\ \E v \in Subgroups : set_subgroup(v)
  \/ proc_module_init_load_time
  \/ \E ok \in BOOLEAN : proc_module_init_create(ok)
  \/ proc_module_exit
  \/ Open(SeqReader)
  \/ \E cnt \in Counts : proc_read_eof(SeqReader, cnt)
  \/ \E cnt \in Counts : proc_read_load(SeqReader, cnt)
  \/ proc_read_store(SeqReader)
  \/ proc_read_arg_name(SeqReader)
  \/ proc_read_arg_group(SeqReader)
  \/ \E reload \in BOOLEAN : proc_read_snprintf(SeqReader, reload)
  \/ \E wr \in Writables(count[SeqReader]) : proc_read_copy(SeqReader, wr)
  \/ \E checked \in BOOLEAN : \E wr \in Writables(count[SeqReader]) :
        proc_read_copy_overlong(SeqReader, wr, checked)

SpecSeq == Init /\ [][NextSeq]_vars

\* a single reader and more parameter writes, the clock held
NextCfg ==
  \/ nsets < CfgParamSets /\ \E v \in Names : set_student_name(v)
  \/ nsets < CfgParamSets /\ \E v \in Groups : set_group(v)
  \/ nsets < CfgParamSets /\ \E v \in Subgroups : set_subgroup(v)
  \/ proc_module_init_load_time
  \/ \E ok \in BOOLEAN : proc_module_init_create(ok)
  \/ proc_module_exit
  \/ Open(SeqReader)
  \/ \E cnt \in Counts : proc_read_eof(SeqReader, cnt)
  \/ \E cnt \in Counts : proc_read_load(SeqReader, cnt)
  \/ proc_read_store(SeqReader)
  \/ proc_read_arg_name(SeqReader)
  \/ proc_read_arg_group(SeqReader)
  \/ \E reload \in BOOLEAN : proc_read_snprintf(SeqReader, reload)
  \/ \E wr \in Writables(count[SeqReader]) : proc_read_copy(SeqReader, wr)
  \/ \E checked \in BOOLEAN : \E wr \in Writables(count[SeqReader]) :
        proc_read_copy_overlong(SeqReader, wr, checked)

SpecCfg == Init /\ [][NextCfg]_vars

(* ------------------------------ properties ----------------------------- *)
\* the last proc_read call of p on its open file has returned
Returned(p) == pc[p] = "idle" /\ ncalls[p] > 0
\* ... and it was entered with *ppos > 0
LastEOF(p) == Returned(p) /\ 0 < delivered[p] /\ delivered[p] < ncalls[p]
\* ... and it was entered with *ppos = 0
LastFresh(p) == Returned(p) /\ ~ LastEOF(p)

\* C1, as stated: in a session whose first call is at offset 0, the first
\* call returns a non-empty report and read_count is one more than before
\* it; every later call returns 0 and leaves read_count as the first call
\* left it.
C1_AsStated ==
  \A p \in Procs : Returned(p) =>
    /\ read_count = tmp[p] + 1
    /\ IF ncalls[p] = 1 THEN ret[p] > 0 /\ ubuf[p].written > 0 ELSE ret[p] = 0

\* C1, amended: with one reader, every call at offset 0 increases read_count
\* by exactly 1 and returns either the non-empty report (cursor = its
\* length) or -EFAULT (cursor still 0, so the next call is at offset 0
\* again); once a call has returned the report, every later call of the
\* session returns 0 and leaves cursor and read_count unchanged.
C1_SessionCalls ==
  \A p \in Procs : Returned(p) =>
    /\ read_count = tmp[p] + 1
    /\ delivered[p] = 0 =>
         ret[p] = 0 - EFAULT /\ ppos[p] = 0
    /\ delivered[p] = ncalls[p] =>
         ret[p] > 0 /\ ret[p] = len[p] /\ ppos[p] = len[p] /\ ubuf[p].written = len[p]
    /\ (0 < delivered[p] /\ delivered[p] < ncalls[p]) =>
         ret[p] = 0 /\ ppos[p] = len[p] /\ ubuf[p].written = len[p]

\* a session whose first call returned the report and that made two more calls
C1_Witness ==
  \E p \in Procs : Returned(p) /\ delivered[p] = 1 /\ ncalls[p] = 3
                   /\ ret[p] = 0 /\ read_count = 1

\* C2: when K calls at offset 0 have completed, read_count is K, whatever
\* the interleaving of their loads and stores.
C2_NoLostUpdate ==
  (\A p \in Procs : pc[p] = "idle") => read_count = fresh_calls

\* C3: the reports of two reads at offset 0 by different sessions never show
\* the same read count.
C3_DistinctCounts ==
  \A p, q \in Procs :
    (p # q /\ ubuf[p].report # NoReport /\ ubuf[q].report # NoReport)
      => ubuf[p].report.count # ubuf[q].report.count

\* C4: the length proc_read uses for the report - what it copies out of buf,
\* returns and stores in the cursor - never exceeds MAX_SIZE.
C4_WithinCapacity ==
  \A p \in Procs :
    /\ len[p] <= MAX_SIZE
    /\ ubuf[p].written <= MAX_SIZE
    /\ ret[p] <= MAX_SIZE
    /\ ppos[p] <= MAX_SIZE

\* C5: a call at offset 0 whose count is smaller than the report length
\* returns an error, writes nothing to the caller's buffer, and read_count
\* keeps the increment.
C5_BufferTooSmall ==
  \A p \in Procs : (LastFresh(p) /\ count[p] < len[p]) =>
    /\ ret[p] < 0
    /\ ubuf[p].written = 0
    /\ read_count = tmp[p] + 1

\* C6: the copy to the caller fails exactly when the call returns -EFAULT,
\* and then the increment of read_count made by the call is still there and
\* the cursor is still 0.
C6_CopyFault ==
  \A p \in Procs : LastFresh(p) =>
    /\ (ubuf[p].written < len[p]) <=> (ret[p] = 0 - EFAULT)
    /\ ret[p] = 0 - EFAULT =>
         /\ read_count = tmp[p] + 1
         /\ ppos[p] = 0
         /\ delivered[p] = 0

\* a call whose copy failed has returned
C6_Witness ==
  \E p \in Procs : LastFresh(p) /\ ret[p] = 0 - EFAULT /\ ubuf[p].written < len[p]
                   /\ read_count = 1 /\ ppos[p] = 0

\* C7: a proc_read call entered with *ppos > 0 returns 0 at once and changes
\* neither the cursor, read_count, the parameters, load_time nor the
\* caller's buffer.
C7_EofNoSideEffects ==
  [][\A p \in Procs : (ppos[p] > 0 /\ calls'[p] # calls[p]) =>
        /\ ret'[p] = 0
        /\ pc'[p] = "idle"
        /\ UNCHANGED <<ppos, read_count, student_name, group, subgroup,
                       load_time, ubuf>>]_vars

\* an end-of-stream call has returned
C7_Witness ==
  \E p \in Procs : LastEOF(p) /\ ret[p] = 0 /\ ppos[p] > 0
                   /\ ubuf[p].report # NoReport /\ read_count > 0

\* C8: no step decreases read_count.
C8_NeverDecreases == [][read_count' >= read_count]_vars

\* C9: the cursor of a session leaves 0 only in the step in which a call
\* returns the report, and then cursor = value returned = report length > 0;
\* every call that returns a report does so from cursor 0; a cursor > 0 does
\* not change for the rest of the session.
C9_DeliveredOnce ==
  [][\A p \in Procs :
        /\ (ppos[p] = 0 /\ ppos'[p] > 0) =>
             /\ pc[p] = "copy" /\ pc'[p] = "idle"
             /\ ret'[p] = len[p] /\ ret'[p] > 0
             /\ ppos'[p] = ret'[p]
             /\ ubuf'[p].written = ret'[p]
        /\ (pc[p] # "idle" /\ pc'[p] = "idle" /\ ret'[p] > 0) =>
             /\ ppos[p] = 0
             /\ ppos'[p] = ret'[p]
        /\ (ppos[p] > 0 /\ session'[p] = session[p]) => ppos'[p] = ppos[p]]_vars

\* a session has been delivered its report
C9_Witness ==
  \E p \in Procs : Returned(p) /\ delivered[p] = ncalls[p]
                   /\ ret[p] > 0 /\ ppos[p] = ret[p]

\* C10: load_time is stored once, by proc_module_init before it registers
\* the file; the file is registered, a session open or a call running only
\* after that store; no other step changes load_time.
C10_LoadTimeOnce ==
  /\ [](/\ load_time_sets <= 1
        /\ node => load_time_sets = 1
        /\ \A p \in Procs : (session[p] > 0 \/ pc[p] # "idle") => load_time_sets = 1)
  /\ [][(load_time' # load_time \/ load_time_sets' # load_time_sets) =>
          /\ init_pc = "insmod" /\ init_pc' = "create"
          /\ ~ node /\ ~ node'
          /\ load_time' = jiffies]_vars

\* a report was read from a module loaded at a clock value other than 0
C10_Witness ==
  /\ node /\ load_time_sets = 1 /\ load_time # 0
  /\ \E p \in Procs : ret[p] > 0 /\ ubuf[p].report.load_time = load_time

\* C11: the elapsed-time field a report shows is >= 0 and not smaller than
\* the one of the report before it, whatever the clock values at activation
\* and at the reads.
C11_UptimeMonotone ==
  \A p \in Procs : (ubuf[p].report # NoReport /\ ubuf[p].report.uptime # Cut) =>
    /\ ubuf[p].report.uptime >= 0
    /\ ubuf[p].report.uptime >= last_uptime

\* C12: a report returned by a call at offset 0 during which no parameter
\* was written shows the values name, group and subgroup have now - whatever
\* was written before the call, between sessions included.
C12_CurrentConfig ==
  \A p \in Procs :
    (Returned(p) /\ delivered[p] = ncalls[p] /\ entry_nsets[p] = nsets) =>
      LET r == ubuf[p].report
      IN /\ r.name # "" /\ r.name = SubSeq(student_name, 1, Len(r.name))
         /\ r.group # Cut => r.group = group
         /\ r.subgroup # Cut => r.subgroup = subgroup

\* the report of the session before showed group 9, this one shows group 7
C12_Witness ==
  \E p \in Procs : /\ Returned(p) /\ delivered[p] = ncalls[p]
                   /\ entry_nsets[p] = nsets
                   /\ last_group = 9 /\ group = 7 /\ ubuf[p].report.group = 7

\* C13: with one reader, the read-count field a report shows is the number
\* of calls at offset 0 made so far, the call that returned it included, and
\* read_count keeps that value through the end-of-stream calls that follow.
C13_ReadCountShown ==
  \A p \in Procs : (ubuf[p].report # NoReport /\ ubuf[p].report.count # Cut) =>
    /\ ubuf[p].report.count = fresh_calls
    /\ read_count = ubuf[p].report.count

\* report (group 9, count 1), end-of-stream call, group set to 7, new
\* session: report (group 7, count 2)
C13_Witness ==
  \E p \in Procs : /\ session[p] = 2 /\ calls[p] = 3 /\ ncalls[p] = 1 /\ Returned(p)
                   /\ last_group = 9
                   /\ ubuf[p].report.group = 7 /\ ubuf[p].report.count = 2
                   /\ read_count = 2

\* C14: no step of a proc_read call changes student_name, group, subgroup or
\* load_time; with one reader, every call entered at offset 0 goes through
\* the increment, which adds 1 to read_count, no later step of the call
\* touches read_count, and so the call has changed it when it returns,
\* report or -EFAULT.
C14_Frame ==
  /\ [][\A p \in Procs :
          /\ (pc'[p] # pc[p] \/ calls'[p] # calls[p]) =>
               UNCHANGED <<student_name, group, subgroup, load_time>>
          /\ (ppos[p] = 0 /\ calls'[p] # calls[p]) => pc'[p] = "store"
          /\ (pc[p] = "store" /\ pc'[p] # "store") => read_count' = read_count + 1
          /\ (pc[p] \notin {"idle", "store"} /\ pc'[p] # pc[p]) =>
               read_count' = read_count]_vars
  /\ [](\A p \in Procs : LastFresh(p) => read_count # tmp[p])

\* a second call at offset 0 has failed: read_count went from 1 to 2, the
\* parameters written before it are as they were
C14_Witness ==
  \E p \in Procs : /\ LastFresh(p) /\ ret[p] = 0 - EFAULT
                   /\ tmp[p] = 1 /\ read_count = 2
                   /\ group = 7 /\ nsets = 1

\* C15: a call at offset 0 whose copy fails returns an error to its caller
\* and has made one increment, not more; and a later call at offset 0 - here
\* the next call of a session whose calls so far failed - returns the report
\* whenever count and the writable bytes at ubuf are both at least its length.
C15_FailureNotFatal ==
  \A p \in Procs : LastFresh(p) =>
    /\ ubuf[p].written < len[p] => ret[p] < 0
    /\ read_count = tmp[p] + 1
    /\ (ncalls[p] >= 2 /\ count[p] >= len[p] /\ ubuf[p].writable >= len[p]) =>
         ret[p] = len[p] /\ ubuf[p].report # NoReport

\* C16: the uptime a call computes is the quotient, truncated toward zero,
\* of the difference jiffies - load_time taken modulo the width of the clock
\* by HZ - the difference being the number of ticks since the store to
\* load_time, modulo that width; it is the value snprintf is given for the
\* elapsed-time field and the value the report shows.
C16_UptimeTruncated ==
  [][\A p \in Procs :
        /\ (pc[p] = "store" /\ pc'[p] = "name") =>
             LET d == (jiffies - load_time) % JiffiesMod
                 u == uptime_seconds'[p]
             IN /\ d = ticks_since_load % JiffiesMod
                /\ u >= 0 /\ u * HZ <= d /\ d < (u + 1) * HZ
        /\ (pc[p] = "snprintf" /\ pc'[p] = "copy" /\ buf'[p].uptime # Cut) =>
             buf'[p].uptime = uptime_seconds[p]
        /\ (pc[p] = "copy" /\ ubuf'[p].report # NoReport) =>
             ubuf'[p].report.uptime = buf[p].uptime]_vars

\* a report with a non-zero uptime, read after jiffies wrapped past load_time
C16_Witness ==
  \E p \in Procs : /\ Returned(p) /\ delivered[p] = ncalls[p]
                   /\ ubuf[p].report.uptime > 0
                   /\ ubuf[p].report.jiffies # Cut
                   /\ ubuf[p].report.jiffies < ubuf[p].report.load_time

\* C17: each of name, group and subgroup gets into the report by a load of
\* its own, which takes the value the parameter has at that step and leaves
\* the fields loaded before as they are; parameter writes can fall between
\* the loads (C17_Witness), so one report can show values of different
\* configurations.
C17_FieldByField ==
  [][\A p \in Procs :
        /\ (pc[p] = "name" /\ pc'[p] # "name") =>
             pc'[p] = "group" /\ buf'[p].name = student_name
        /\ (pc[p] = "group" /\ pc'[p] # "group") =>
             /\ pc'[p] = "snprintf"
             /\ buf'[p].group = group /\ buf'[p].name = buf[p].name
        /\ (pc[p] = "snprintf" /\ pc'[p] # "snprintf") =>
             /\ pc'[p] = "copy"
             /\ buf'[p].subgroup \in {subgroup, Cut}
             /\ buf'[p].group \in {buf[p].group, Cut}
             /\ buf'[p].name = SubSeq(buf[p].name, 1, Len(buf'[p].name))
        /\ (pc[p] = "copy" /\ ubuf'[p].report # NoReport) =>
             ubuf'[p].report = buf[p]]_vars

\* name and group were both written during the call: the report shows the
\* name as it was before and the group as it is after
C17_Witness ==
  \E p \in Procs : /\ Returned(p) /\ delivered[p] = ncalls[p]
                   /\ entry_nsets[p] = 0 /\ nsets = 2
                   /\ ubuf[p].report.name = "Kuharev Kirill"
                   /\ student_name # "Kuharev Kirill"
                   /\ ubuf[p].report.group = 7 /\ group = 7

\* C18: a call at offset 0 writes at most count bytes to the caller's buffer.
C18_WithinCount ==
  \A p \in Procs : LastFresh(p) => ubuf[p].written <= count[p]

\* C19: with one reader, read_count is the number of proc_read calls entered
\* at offset 0 since activation (less the one whose increment has not been
\* stored yet), whether they returned the report or -EFAULT; a process that
\* has made an end-of-stream call has made more calls than were counted.
C19_CountsOffsetZeroCalls ==
  /\ read_count + Cardinality({p \in Procs : pc[p] = "store"}) = fresh_calls
  /\ \A p \in Procs : LastEOF(p) => read_count < calls[p]

\* one session: a call that failed, the retry that returned the report, an
\* end-of-stream call; read_count is 2
C19_Witness ==
  \E p \in Procs : /\ session[p] = 1 /\ Returned(p)
                   /\ ncalls[p] = 3 /\ delivered[p] = 2
                   /\ read_count = 2

====
